---- MODULE Spec2Model ----
(***************************************************************************)
(* State-machine model of the SuperVillain type of src/supervillain.rs,    *)
(* together with the collaborators its operations talk to (the Sidekick,   *)
(* weapon, henchman and cipher doubles defined next to it).                *)
(*                                                                         *)
(* Text is a sequence of one-character strings.  Option<T> is a sequence   *)
(* of length 0 (None) or 1 (Some).                                         *)
(***************************************************************************)
EXTENDS Integers, Sequences, FiniteSets, TLC

VARIABLES villain, origin, op, args, panicked, error, result, calls, weapon, henchman, plans_sleeping, plan_pc, plan_result, worker_free

vars == <<villain, origin, op, args, panicked, error, result, calls, weapon, henchman, plans_sleeping, plan_pc, plan_result, worker_free>>

----------------------------------------------------------------------------
(* Bounds *)

\* longest name string handed to try_from / set_full_name
MaxLen == 4

\* most come_up_with_plan futures suspended at the same time
MaxPlans == 2

----------------------------------------------------------------------------
(* Values *)

Char == {"a", " "}

None == <<>>

Some(x) == <<x>>

TextsUpTo(n) == UNION {[1..k -> Char] : k \in 0..n}

\* the shortest name of three tokens
ThreeTokens == <<"a", " ", "a", " ", "a">>

\* every string up to MaxLen, and the three-token name
Names == TextsUpTo(MaxLen) \cup {ThreeTokens}

\* first_name / last_name values written by a struct literal
FieldTexts == {<<"a">>, <<" ">>}

Keys == {<<>>, <<"k">>}

Secrets == {<<"a", " ", "a">>}

Locations == {<<"X">>, <<"Y">>}

\* weak-target lists a sidekick double is configured with
TargetLists == {<<>>, <<<<"X">>, <<"Y">>>>, <<<<"Y">>, <<"X">>>>}

GadgetDummy == "GadgetDummy"

CipherDouble == "CipherDouble"

NoArgs == [text |-> <<>>, intense |-> FALSE, times |-> 0]

Call(fn, a) == [fn |-> fn, args |-> a]

----------------------------------------------------------------------------
(* str::split_whitespace and char::is_whitespace *)

is_whitespace(c) == c = " "

RECURSIVE SplitOnSpace(_, _, _, _)
\* as str::split(' ') would do it: every separator closes a token, empty or not
SplitOnSpace(s, i, cur, acc) ==
    IF i > Len(s)
    THEN Append(acc, cur)
    ELSE IF is_whitespace(s[i])
         THEN SplitOnSpace(s, i + 1, <<>>, Append(acc, cur))
         ELSE SplitOnSpace(s, i + 1, Append(cur, s[i]), acc)

split_on_space(s) == SplitOnSpace(s, 1, <<>>, <<>>)

RECURSIVE SplitFrom(_, _, _, _)
\* scan s from position i; cur is the token being collected, acc the tokens
\* already complete.  Empty tokens are never emitted.
SplitFrom(s, i, cur, acc) ==
    IF i > Len(s)
    THEN IF cur = <<>> THEN acc ELSE Append(acc, cur)
    ELSE IF is_whitespace(s[i])
         THEN SplitFrom(s, i + 1, <<>>, IF cur = <<>> THEN acc ELSE Append(acc, cur))
         ELSE SplitFrom(s, i + 1, Append(cur, s[i]), acc)

split_whitespace(s) == SplitFrom(s, 1, <<>>, <<>>)

----------------------------------------------------------------------------
(* Test doubles: WeaponDouble, HenchmanDouble, Sidekick, CipherDouble *)

WeaponDouble_new == [times_shot |-> 0]

WeaponDouble_shoot(w) == [w EXCEPT !.times_shot = w.times_shot + 1]

HenchmanDouble_default ==
    [hq_location |-> None, current_invocation |-> 0,
     done_hard_things |-> 0, fought_enemies |-> 0]

build_secret_hq(h, location) == [h EXCEPT !.hq_location = Some(location)]

do_hard_things(h) ==
    [h EXCEPT !.current_invocation = h.current_invocation + 1,
              !.done_hard_things = h.current_invocation + 1]

fight_enemies(h) ==
    [h EXCEPT !.current_invocation = h.current_invocation + 1,
              !.fought_enemies = h.current_invocation + 1]

verify_two_things_done(h) == h.done_hard_things = 2 /\ h.fought_enemies = 1

Sidekick_new == [agree_answer |-> FALSE, targets |-> <<>>, received_message |-> <<>>]

SidekickDoubles ==
    {[Sidekick_new EXCEPT !.agree_answer = a, !.targets = t] :
        a \in BOOLEAN, t \in TargetLists}

agree(sk) == sk.agree_answer

get_weak_targets(sk, gadget) == sk.targets

tell(sk, ciphered_msg) == [sk EXCEPT !.received_message = ciphered_msg]

transform(cipher, secret, key) == <<"+">> \o secret \o <<"+">>

----------------------------------------------------------------------------
(* SuperVillain *)

SuperVillain_default ==
    [first_name |-> <<>>, last_name |-> <<>>, sidekick |-> None, shared_key |-> <<>>]

ParseError(purpose, reason) == [purpose |-> purpose, reason |-> reason]

full_name(self) == self.first_name \o <<" ">> \o self.last_name

\* variant: rebuilds the value with ..Default::default() for the other fields
set_full_name_resetting(self, name) ==
    LET components == split_whitespace(name) IN
    IF Len(components) # 2
    THEN [panic |-> TRUE, self |-> self]
    ELSE [panic |-> FALSE,
          self |-> [first_name |-> components[1], last_name |-> components[2],
                    sidekick |-> None, shared_key |-> <<>>]]

\* variant: the threshold of try_from (fewer than 2) instead of exactly 2
set_full_name_at_least_two(self, name) ==
    LET components == split_whitespace(name) IN
    IF Len(components) < 2
    THEN [panic |-> TRUE, self |-> self]
    ELSE [panic |-> FALSE,
          self |-> [self EXCEPT !.first_name = components[1],
                                !.last_name = components[2]]]

set_full_name(self, name) ==
    LET components == split_whitespace(name) IN
    IF Len(components) # 2
    THEN [panic |-> TRUE, self |-> self]
    ELSE [panic |-> FALSE,
          self |-> [self EXCEPT !.first_name = components[1],
                                !.last_name = components[2]]]

\* variant: the threshold of set_full_name (exactly 2) instead of fewer than 2
try_from_exactly_two(name) ==
    LET components == split_whitespace(name) IN
    IF Len(components) # 2
    THEN [ok |-> FALSE, val |-> None,
          err |-> Some([purpose |-> "full_name", reason |-> "Too few arguments"])]
    ELSE [ok |-> TRUE,
          val |-> Some([first_name |-> components[1], last_name |-> components[2],
                        sidekick |-> None, shared_key |-> <<>>]),
          err |-> None]

try_from(name) ==
    LET components == split_whitespace(name) IN
    IF Len(components) < 2
    THEN [ok |-> FALSE, val |-> None,
          err |-> Some(ParseError("full_name", "Too few arguments"))]
    ELSE [ok |-> TRUE,
          val |-> Some([SuperVillain_default EXCEPT !.first_name = components[1],
                                                    !.last_name = components[2]]),
          err |-> None]

\* variant: an inclusive range, as 1..=3
random_range_inclusive(low, high) == low..high

\* rng.random_range(1..3): the half-open range low..high-1
random_range(low, high) == low..(high - 1)

RECURSIVE ShootLoop(_, _)
\* for _ in 0..times { weapon.shoot(); }
ShootLoop(st, times) ==
    IF times = 0 THEN st
    ELSE ShootLoop([weapon |-> WeaponDouble_shoot(st.weapon),
                    calls |-> Append(st.calls, Call("shoot", <<>>))], times - 1)

attack(w, intense, times) ==
    LET first == [weapon |-> WeaponDouble_shoot(w), calls |-> <<Call("shoot", <<>>)>>] IN
    IF intense THEN ShootLoop(first, times) ELSE first

\* variant: the test of the answer inverted
conspire_inverted(self) ==
    IF self.sidekick # None
    THEN LET sidekick == self.sidekick[1] IN
         [self |-> IF agree(sidekick) THEN [self EXCEPT !.sidekick = None] ELSE self,
          calls |-> <<Call("agree", <<>>)>>]
    ELSE [self |-> self, calls |-> <<>>]

conspire(self) ==
    IF self.sidekick # None
    THEN LET sidekick == self.sidekick[1] IN
         [self |-> IF ~agree(sidekick) THEN [self EXCEPT !.sidekick = None] ELSE self,
          calls |-> <<Call("agree", <<>>)>>]
    ELSE [self |-> self, calls |-> <<>>]

\* variant: the last weak target instead of the first
stage1_last_target(self, h, gadget) ==
    IF self.sidekick # None
    THEN LET targets == get_weak_targets(self.sidekick[1], gadget) IN
         IF targets # <<>>
         THEN [henchman |-> build_secret_hq(h, targets[Len(targets)]),
               calls |-> <<Call("get_weak_targets", <<>>),
                           Call("build_secret_hq", <<targets[Len(targets)]>>)>>]
         ELSE [henchman |-> h, calls |-> <<Call("get_weak_targets", <<>>)>>]
    ELSE [henchman |-> h, calls |-> <<>>]

start_world_domination_stage1(self, h, gadget) ==
    IF self.sidekick # None
    THEN LET targets == get_weak_targets(self.sidekick[1], gadget) IN
         IF targets # <<>>
         THEN [henchman |-> build_secret_hq(h, targets[1]),
               calls |-> <<Call("get_weak_targets", <<>>),
                           Call("build_secret_hq", <<targets[1]>>)>>]
         ELSE [henchman |-> h, calls |-> <<Call("get_weak_targets", <<>>)>>]
    ELSE [henchman |-> h, calls |-> <<>>]

\* variant: the two henchman calls in the other order
stage2_hard_things_first(self, h) ==
    [henchman |-> fight_enemies(do_hard_things(h)),
     calls |-> <<Call("do_hard_things", <<>>), Call("fight_enemies", <<>>)>>]

start_world_domination_stage2(self, h) ==
    [henchman |-> do_hard_things(fight_enemies(h)),
     calls |-> <<Call("fight_enemies", <<>>), Call("do_hard_things", <<>>)>>]

\* variant: the plaintext handed to the sidekick
tell_plans_plaintext(self, secret, cipher) ==
    IF self.sidekick # None
    THEN LET ciphered_message == transform(cipher, secret, self.shared_key) IN
         [self |-> [self EXCEPT !.sidekick = Some(tell(self.sidekick[1], secret))],
          calls |-> <<Call("transform", <<secret, self.shared_key>>),
                      Call("tell", <<secret>>)>>]
    ELSE [self |-> self, calls |-> <<>>]

tell_plans(self, secret, cipher) ==
    IF self.sidekick # None
    THEN LET ciphered_message == transform(cipher, secret, self.shared_key) IN
         [self |-> [self EXCEPT !.sidekick = Some(tell(self.sidekick[1], ciphered_message))],
          calls |-> <<Call("transform", <<secret, self.shared_key>>),
                      Call("tell", <<ciphered_message>>)>>]
    ELSE [self |-> self, calls |-> <<>>]

\* Duration::from_millis(100)
SleepMillis == 100

ThePlan == "Take over the world!"

\* variant: std::thread::sleep(d), which holds the worker for the whole wait
thread_sleep(d) == [pc |-> "sleeping", worker_free |-> FALSE]

\* tokio::time::sleep(d).await: the future returns Pending until the timer
\* fires, and the worker that polled it is free to poll other tasks.
sleep_await(d) == [pc |-> "sleeping", worker_free |-> TRUE]

----------------------------------------------------------------------------
(* Initial states: a SuperVillain built by Default, by a struct literal,   *)
(* or by TryFrom<&str>                                                     *)

Fresh ==
    /\ panicked = FALSE
    /\ result = None
    /\ calls = <<>>
    /\ weapon = WeaponDouble_new
    /\ henchman = HenchmanDouble_default
    /\ plans_sleeping = 0
    /\ plan_pc = "idle"
    /\ plan_result = None
    /\ worker_free = TRUE

InitDefault ==
    /\ villain = Some(SuperVillain_default)
    /\ origin = "default"
    /\ op = "default"
    /\ args = NoArgs
    /\ error = None
    /\ Fresh

InitLiteral ==
    /\ \E f \in FieldTexts, l \in FieldTexts, k \in Keys,
          s \in {None} \cup {Some(d) : d \in SidekickDoubles} :
          villain = Some([first_name |-> f, last_name |-> l,
                          sidekick |-> s, shared_key |-> k])
    /\ origin = "literal"
    /\ op = "literal"
    /\ args = NoArgs
    /\ error = None
    /\ Fresh

InitTryFrom ==
    /\ \E name \in Names :
          /\ villain = try_from(name).val
          /\ error = try_from(name).err
          /\ args = [NoArgs EXCEPT !.text = name]
    /\ origin = "try_from"
    /\ op = "try_from"
    /\ Fresh

Init == InitDefault \/ InitLiteral \/ InitTryFrom

----------------------------------------------------------------------------
(* Operations.  A method taking &mut self cannot run while a future of     *)
(* come_up_with_plan (which borrows &self) is alive; methods taking &self, *)
(* come_up_with_plan among them, can.  plans_sleeping counts the suspended *)
(* futures; plan_pc and plan_result describe the future that moved last.   *)
(* A task can only take a step while the worker is free.                   *)

Alive == villain # None

Runnable == Alive /\ worker_free

Unborrowed == plans_sleeping = 0

\* what the last operation was given, did to its collaborators and gave
\* back; panicked tells whether it panicked
Observe(o, a, c, w, h, r) ==
    /\ op' = o
    /\ args' = a
    /\ calls' = c
    /\ weapon' = w
    /\ henchman' = h
    /\ result' = r

FullName ==
    /\ Runnable
    /\ Observe("full_name", NoArgs, <<>>, WeaponDouble_new, HenchmanDouble_default,
               Some(full_name(villain[1])))
    /\ panicked' = FALSE
    /\ UNCHANGED <<villain, origin, error, plans_sleeping, plan_pc, plan_result, worker_free>>

SetFullName ==
    /\ Runnable /\ Unborrowed
    /\ \E name \in Names :
          LET r == set_full_name(villain[1], name) IN
          /\ panicked' = r.panic
          \* the panic comes before any assignment: a caller that catches
          \* the unwind still holds the value as it was
          /\ villain' = Some(r.self)
          /\ origin' = IF r.panic THEN origin ELSE "set_full_name"
          /\ Observe("set_full_name", [NoArgs EXCEPT !.text = name], <<>>,
                     WeaponDouble_new, HenchmanDouble_default, None)
    /\ UNCHANGED <<error, plans_sleeping, plan_pc, plan_result, worker_free>>

Attack ==
    /\ Runnable
    /\ \E intense \in BOOLEAN, times \in random_range(1, 3) :
          LET r == attack(WeaponDouble_new, intense, times) IN
          Observe("attack",
                  [NoArgs EXCEPT !.intense = intense, !.times = IF intense THEN times ELSE 0],
                  r.calls, r.weapon, HenchmanDouble_default, None)
    /\ panicked' = FALSE
    /\ UNCHANGED <<villain, origin, error, plans_sleeping, plan_pc, plan_result, worker_free>>

Conspire ==
    /\ Runnable /\ Unborrowed
    /\ LET r == conspire(villain[1]) IN
          /\ villain' = Some(r.self)
          /\ Observe("conspire", NoArgs, r.calls, WeaponDouble_new,
                     HenchmanDouble_default, None)
    /\ panicked' = FALSE
    /\ UNCHANGED <<origin, error, plans_sleeping, plan_pc, plan_result, worker_free>>

Stage1 ==
    /\ Runnable
    /\ LET r == start_world_domination_stage1(villain[1], HenchmanDouble_default, GadgetDummy) IN
          Observe("stage1", NoArgs, r.calls, WeaponDouble_new, r.henchman, None)
    /\ panicked' = FALSE
    /\ UNCHANGED <<villain, origin, error, plans_sleeping, plan_pc, plan_result, worker_free>>

Stage2 ==
    /\ Runnable
    /\ LET r == start_world_domination_stage2(villain[1], HenchmanDouble_default) IN
          Observe("stage2", NoArgs, r.calls, WeaponDouble_new, r.henchman, None)
    /\ panicked' = FALSE
    /\ UNCHANGED <<villain, origin, error, plans_sleeping, plan_pc, plan_result, worker_free>>

TellPlans ==
    /\ Runnable
    /\ \E secret \in Secrets :
          LET r == tell_plans(villain[1], secret, CipherDouble) IN
          /\ villain' = Some(r.self)
          /\ Observe("tell_plans", [NoArgs EXCEPT !.text = secret], r.calls,
                     WeaponDouble_new, HenchmanDouble_default, None)
    /\ panicked' = FALSE
    /\ UNCHANGED <<origin, error, plans_sleeping, plan_pc, plan_result, worker_free>>

\* come_up_with_plan().await up to its suspension point; &self, so it can be
\* called again while earlier futures are still suspended
PlanStart ==
    /\ Runnable
    /\ plans_sleeping < MaxPlans
    /\ LET s == sleep_await(SleepMillis) IN
          /\ plan_pc' = s.pc
          /\ worker_free' = s.worker_free
    /\ plans_sleeping' = plans_sleeping + 1
    /\ plan_result' = None
    /\ Observe("come_up_with_plan", NoArgs, <<>>, WeaponDouble_new,
               HenchmanDouble_default, None)
    /\ panicked' = FALSE
    /\ UNCHANGED <<villain, origin, error>>

\* a timer fires: one suspended future resumes and returns the literal
PlanWake ==
    /\ Alive /\ plans_sleeping > 0
    /\ plans_sleeping' = plans_sleeping - 1
    /\ plan_pc' = "done"
    /\ plan_result' = Some(ThePlan)
    /\ worker_free' = TRUE
    /\ Observe("come_up_with_plan", NoArgs, <<>>, WeaponDouble_new,
               HenchmanDouble_default, None)
    /\ panicked' = FALSE
    /\ UNCHANGED <<villain, origin, error>>

\* the runtime drops one future while it is suspended
PlanCancel ==
    /\ Runnable /\ plans_sleeping > 0
    /\ plans_sleeping' = plans_sleeping - 1
    /\ plan_pc' = "cancelled"
    /\ plan_result' = None
    /\ worker_free' = TRUE
    /\ Observe("cancel", NoArgs, <<>>, WeaponDouble_new, HenchmanDouble_default, None)
    /\ panicked' = FALSE
    /\ UNCHANGED <<villain, origin, error>>

Next ==
    \/ FullName
    \/ SetFullName
    \/ Attack
    \/ Conspire
    \/ Stage1
    \/ Stage2
    \/ TellPlans
    \/ PlanStart
    \/ PlanWake
    \/ PlanCancel

Spec == Init /\ [][Next]_vars

----------------------------------------------------------------------------
(* Whitespace-separated tokens, stated without reference to the scan:      *)
(* a token starts at a non-blank character that is first or follows a      *)
(* blank, and runs to the last non-blank character before the next blank.  *)

TokenStarts(s) == {i \in 1..Len(s) : s[i] # " " /\ (i = 1 \/ s[i - 1] = " ")}

NumTokens(s) == Cardinality(TokenStarts(s))

NthStart(s, k) ==
    CHOOSE i \in TokenStarts(s) : Cardinality({j \in TokenStarts(s) : j < i}) = k - 1

TokenEnd(s, i) ==
    CHOOSE j \in i..Len(s) :
        /\ \A m \in i..j : s[m] # " "
        /\ j = Len(s) \/ s[j + 1] = " "

NthToken(s, k) == SubSeq(s, NthStart(s, k), TokenEnd(s, NthStart(s, k)))

WellFormed(t) == t # <<>> /\ \A i \in 1..Len(t) : t[i] # " "

CountCalls(c, fn) == Cardinality({i \in 1..Len(c) : c[i].fn = fn})

Attached(v) == v # None /\ v[1].sidekick # None

----------------------------------------------------------------------------
(* Claims *)

\* C1: every start_world_domination_stage2 call, with or without a sidekick,
\* makes exactly two henchman calls: fight_enemies first, do_hard_things
\* second, each exactly once and nothing else.
C1_Stage2FightsThenDoesHardThings ==
    op = "stage2" =>
        /\ calls = <<Call("fight_enemies", <<>>), Call("do_hard_things", <<>>)>>
        /\ henchman.current_invocation = 2
        /\ henchman.fought_enemies = 1
        /\ henchman.done_hard_things = 2
        /\ henchman.hq_location = None

C1_Witness ==
    /\ op = "stage2"
    /\ villain # None /\ villain[1].sidekick = None
    /\ verify_two_things_done(henchman)

\* C2: one attack shoots exactly once when not intense, and two or three
\* times when intense, whatever the random draw.
C2_AttackShotCount ==
    op = "attack" =>
        /\ weapon.times_shot = Len(calls)
        /\ \A i \in 1..Len(calls) : calls[i] = Call("shoot", <<>>)
        /\ ~args.intense => weapon.times_shot = 1
        /\ args.intense => weapon.times_shot \in {2, 3}

C2_Witness == op = "attack" /\ args.intense /\ weapon.times_shot = 3

\* C3: tell_plans with a sidekick calls the cipher once with (secret,
\* shared_key) and then tell once with the cipher's output, never with the
\* plaintext; without a sidekick it calls neither.
C3_TellPlansRelaysCiphertext ==
    op = "tell_plans" =>
        IF Attached(villain)
        THEN LET self == villain[1]
                 ciphertext == transform(CipherDouble, args.text, self.shared_key) IN
             /\ calls = <<Call("transform", <<args.text, self.shared_key>>),
                          Call("tell", <<ciphertext>>)>>
             /\ self.sidekick[1].received_message = ciphertext
             /\ self.sidekick[1].received_message # args.text
             /\ \A i \in 1..Len(calls) : calls[i] # Call("tell", <<args.text>>)
        ELSE calls = <<>>

C3_Witness ==
    /\ op = "tell_plans"
    /\ Attached(villain)
    /\ villain[1].shared_key = <<"k">>
    /\ villain[1].sidekick[1].received_message = <<"+", "a", " ", "a", "+">>

\* C4: start_world_domination_stage1 makes at most one build_secret_hq call:
\* exactly one, at the first weak target, when a sidekick is attached and
\* its list is non-empty; none otherwise.
C4_Stage1BuildsAtFirstTarget ==
    op = "stage1" =>
        /\ CountCalls(calls, "build_secret_hq") <= 1
        /\ IF Attached(villain) /\ villain[1].sidekick[1].targets # <<>>
           THEN LET first == villain[1].sidekick[1].targets[1] IN
                /\ CountCalls(calls, "build_secret_hq") = 1
                /\ \E i \in 1..Len(calls) : calls[i] = Call("build_secret_hq", <<first>>)
                /\ henchman.hq_location = Some(first)
           ELSE /\ CountCalls(calls, "build_secret_hq") = 0
                /\ henchman.hq_location = None

C4_Witness ==
    /\ op = "stage1"
    /\ Attached(villain)
    /\ villain[1].sidekick[1].targets = <<<<"Y">>, <<"X">>>>
    /\ henchman.hq_location = Some(<<"Y">>)

\* C5: after conspire the sidekick is attached iff it was attached before
\* and agreed; a kept sidekick is the same one; agree is asked exactly once
\* when a sidekick is attached and not at all otherwise; first_name,
\* last_name and shared_key are not changed.
C5_ConspireStep ==
    op' = "conspire" =>
        LET before == villain[1]
            after == villain'[1] IN
        /\ after.sidekick # None <=>
              (before.sidekick # None /\ before.sidekick[1].agree_answer)
        /\ after.sidekick # None => after.sidekick = before.sidekick
        /\ calls' = IF before.sidekick # None THEN <<Call("agree", <<>>)>> ELSE <<>>
        /\ after.first_name = before.first_name
        /\ after.last_name = before.last_name
        /\ after.shared_key = before.shared_key

C5_Conspire == [][C5_ConspireStep]_vars

C5_Witness ==
    /\ op = "conspire"
    /\ villain # None /\ villain[1].sidekick = None
    /\ calls = <<Call("agree", <<>>)>>

\* C6: try_from gives the ParseError {full_name, Too few arguments} iff the
\* string has fewer than two tokens; otherwise it gives a SuperVillain named
\* by the first two tokens, with no sidekick and an empty shared_key.
C6_TryFrom ==
    op = "try_from" =>
        LET name == args.text IN
        IF NumTokens(name) < 2
        THEN /\ villain = None
             /\ error = Some([purpose |-> "full_name", reason |-> "Too few arguments"])
        ELSE /\ error = None
             /\ villain = Some([first_name |-> NthToken(name, 1),
                                last_name |-> NthToken(name, 2),
                                sidekick |-> None,
                                shared_key |-> <<>>])

C6_Witness ==
    /\ op = "try_from"
    /\ NumTokens(args.text) = 3
    /\ villain # None
    /\ villain[1].first_name = <<"a">>
    /\ villain[1].last_name = <<"a">>

\* C7: set_full_name panics iff the string does not have exactly two tokens;
\* with two tokens it sets first_name and last_name to them and leaves
\* sidekick and shared_key alone.  A three-token string panics here although
\* try_from accepts it with its first two tokens.
C7_SetFullNameStep ==
    op' = "set_full_name" =>
        LET name == args'.text IN
        /\ panicked' <=> NumTokens(name) # 2
        /\ ~panicked' =>
              villain' = Some([villain[1] EXCEPT !.first_name = NthToken(name, 1),
                                                 !.last_name = NthToken(name, 2)])
        /\ panicked' => villain' = villain
        /\ NumTokens(name) = 3 =>
              /\ panicked'
              /\ try_from(name).ok
              /\ try_from(name).val[1].first_name = NthToken(name, 1)
              /\ try_from(name).val[1].last_name = NthToken(name, 2)

C7_SetFullName == [][C7_SetFullNameStep]_vars

C7_Witness ==
    /\ op = "set_full_name"
    /\ panicked
    /\ NumTokens(args.text) = 3

\* C8: come_up_with_plan yields the literal or nothing: the result is the
\* literal exactly when a call has completed, and while any call is
\* suspended in its delay another task of the caller can take a step.
OtherTaskStep == FullName \/ Attack \/ Stage1 \/ Stage2 \/ TellPlans

C8_PlanLiteralAndNonBlocking ==
    /\ plan_result \in {None, Some(ThePlan)}
    /\ plan_pc = "done" <=> plan_result = Some(ThePlan)
    /\ plans_sleeping > 0 => ENABLED OtherTaskStep

C8_Witness == plans_sleeping >= 2 /\ plan_pc = "sleeping" /\ op = "attack"

\* C9 as stated: first_name and last_name are non-empty tokens without
\* whitespace in every state of every SuperVillain, however it was built.
C9_NamesAlwaysTokens ==
    villain # None =>
        WellFormed(villain[1].first_name) /\ WellFormed(villain[1].last_name)

\* C9 amended: the names of a SuperVillain built by try_from, and of any
\* SuperVillain after a successful set_full_name, are non-empty tokens
\* without whitespace, and stay so under every later operation.
C9_ParsedNamesAreTokens ==
    villain # None /\ origin \in {"try_from", "set_full_name"} =>
        WellFormed(villain[1].first_name) /\ WellFormed(villain[1].last_name)

C9_Witness ==
    /\ villain # None
    /\ origin = "set_full_name"
    /\ op = "tell_plans"
    /\ villain[1].first_name = <<"a", "a">>

FrameCommon ==
    villain # None /\ villain' # None =>
        /\ villain'[1].shared_key = villain[1].shared_key
        /\ villain[1].sidekick = None => villain'[1].sidekick = None

\* C10 as stated: no operation attaches a sidekick or changes shared_key,
\* and attack, stage1, stage2, tell_plans, full_name and come_up_with_plan
\* leave all four fields unchanged.
C10_OriginalStep ==
    /\ FrameCommon
    /\ op' \in {"attack", "stage1", "stage2", "tell_plans", "full_name",
                "come_up_with_plan", "cancel"} => villain' = villain

C10_FrameAsStated == [][C10_OriginalStep]_vars

\* C10 amended: no operation attaches a sidekick or changes shared_key;
\* attack, stage1, stage2, full_name and come_up_with_plan leave all four
\* fields unchanged; tell_plans leaves them unchanged except for the message
\* stored inside the attached sidekick.
C10_AmendedStep ==
    /\ FrameCommon
    /\ op' \in {"attack", "stage1", "stage2", "full_name",
                "come_up_with_plan", "cancel"} => villain' = villain
    /\ op' = "tell_plans" =>
          IF villain[1].sidekick = None
          THEN villain' = villain
          ELSE /\ villain'[1].sidekick # None
               /\ villain' = Some([villain[1] EXCEPT !.sidekick =
                      Some([villain[1].sidekick[1] EXCEPT !.received_message =
                                villain'[1].sidekick[1].received_message])])

C10_Frame == [][C10_AmendedStep]_vars

C10_Witness ==
    /\ op = "tell_plans"
    /\ Attached(villain)
    /\ villain[1].shared_key = <<"k">>
    /\ villain[1].sidekick[1].received_message # <<>>
    /\ origin = "set_full_name"

====
